---------------------------- MODULE Spec2Model ----------------------------
(***************************************************************************)
(* A model of MainWindow (src/mainwindow.cpp) of the NormalmapGenerator:   *)
(* the caller of the texture-map engine.  It owns the loaded input image,  *)
(* the four cached maps, the widgets that hold the generation parameters,  *)
(* the batch queue and the stop flag.  Every slot of the window is one     *)
(* operator on the window's state, composed exactly as the slots call one  *)
(* another; every action of the model is one event handled by the event    *)
(* loop (the main loop, or the QCoreApplication::processEvents call that   *)
(* processQueue makes between two queue items).                            *)
(***************************************************************************)
EXTENDS Integers, Sequences, FiniteSets, TLC

(***************************************************************************)
(* Bounds of the model.                                                    *)
(***************************************************************************)
\* longest queue the drops of a batch build
MaxQueue == 2
\* longest queue the drops of an interactive session build
MaxSessionQueue == 2
\* deepest nesting of processQueue runs (a run started from the yield of another)
MaxDepth == 2
\* largest longest side of an image file, in pixels
MaxImageSize == 2800

(***************************************************************************)
(* Strings.  A QString is a sequence of one-character strings.             *)
(***************************************************************************)
\* QString::toLower on one character (the letters the model's names use)
LowerChar(c) ==
    CASE c = "T" -> "t"
      [] c = "G" -> "g"
      [] c = "A" -> "a"
      [] c = "P" -> "p"
      [] c = "N" -> "n"
      [] OTHER -> c

toLower(str) == [k \in 1..Len(str) |-> LowerChar(str[k])]

\* positions of the dots of a file name
Dots(str) == {k \in 1..Len(str) : str[k] = "."}

Max(S) == CHOOSE x \in S : \A y \in S : y <= x
Min(S) == CHOOSE x \in S : \A y \in S : x <= y

\* QFileInfo::suffix: the characters after the LAST dot, empty without a dot
suffix(name) ==
    IF Dots(name) = {} THEN <<>>
    ELSE SubSeq(name, Max(Dots(name)) + 1, Len(name))

\* QFileInfo::baseName: the characters before the FIRST dot
baseName(name) ==
    IF Dots(name) = {} THEN name
    ELSE SubSeq(name, 1, Min(Dots(name)) - 1)

TGA == <<"t", "g", "a">>
PNG == <<"p", "n", "g">>

(***************************************************************************)
(* Images.  A QImage is its size together with what it was computed from:  *)
(* src is the URL whose file the pixels come from (0 for a null image),    *)
(* par the values of the parameters the generator was called with.         *)
(***************************************************************************)
NullImage == [src |-> 0, w |-> 0, h |-> 0, par |-> <<>>]

isNull(img) == img.w = 0 \/ img.h = 0

\* QUrl::isValid: the model's invalid URL is 0 (a default-constructed QUrl)
isValid(url) == url # 0

(***************************************************************************)
(* Arithmetic of the window.                                               *)
(***************************************************************************)
\* the conversion double -> int: truncation toward zero of num/den (den > 0)
TruncDiv(num, den) ==
    IF num >= 0 THEN num \div den ELSE -((-num) \div den)

\* -0.037 * imageSize + 100 rounded to the nearest integer, as round() does
RoundedDetailScale(imageSize) ==
    LET num == 2 * (100000 - 37 * imageSize) + 1000
    IN  IF num >= 0 THEN num \div 2000 ELSE -((-num + 1999) \div 2000)

\* load, line 159: int largeDetailScale = -0.037 * imageSize + 100;
\* the double is (100000 - 37*imageSize)/1000 and the int its truncation
\* (the two agree for every imageSize of 0..40000 in IEEE double arithmetic)
LinearDetailScale(imageSize) == TruncDiv(100000 - 37 * imageSize, 1000)

\* the value for spinBox_largeDetailScale with another number in line 166
ClampTo25DetailScale(imageSize) ==
    IF imageSize > 2300 THEN 25 ELSE LinearDetailScale(imageSize)

\* the value for spinBox_largeDetailScale without lines 165-167
NoClampDetailScale(imageSize) == LinearDetailScale(imageSize)

\* load, lines 159-167: the value handed to spinBox_largeDetailScale
largeDetailScaleFor(imageSize) ==
    IF imageSize < 300 THEN LinearDetailScale(imageSize)
    ELSE IF imageSize > 2300 THEN 20
    ELSE LinearDetailScale(imageSize)

\* the check box with <= for < in line 162
KeepLargeDetailAbove300(imageSize) == ~(imageSize <= 300)

\* load, lines 160-164: the state of checkBox_keepLargeDetail after load
keepLargeDetailFor(imageSize) == ~(imageSize < 300)

\* calcPercentage: (int)(((double)value / 100.0) * percentage); exact for the
\* sizes and percentages of the model (1, 300, 400 px at 50 %)
calcPercentage(value, percentage) == (value * percentage) \div 100

\* QImage::scaled(w, h, Qt::KeepAspectRatio, ...): null when w or h is not
\* positive, else the largest size of the image's aspect ratio within w x h,
\* each side at least 1
scaled(img, w, h) ==
    IF isNull(img) \/ w <= 0 \/ h <= 0 THEN NullImage
    ELSE LET rw == (h * img.w) \div img.h
         IN  IF rw <= w
             THEN [img EXCEPT !.w = IF rw < 1 THEN 1 ELSE rw, !.h = h]
             ELSE LET rh == (w * img.h) \div img.w
                  IN  [img EXCEPT !.w = w, !.h = IF rh < 1 THEN 1 ELSE rh]

(***************************************************************************)
(* The files.  Urls are numbered; FileName gives QUrl::fileName.           *)
(***************************************************************************)
FileName(url) ==
    CASE url = 1 -> <<"a", ".", "p", "n", "g">>
      [] url = 2 -> <<"b", ".", "t", "g", "a">>
      [] url = 3 -> <<"c", ".", "T", "G", "A">>
      [] url = 4 -> <<"d">>
      [] url = 5 -> <<"e", ".", "p", "n">>
      [] url = 6 -> <<"f", ".", "t", "x", "t">>
      [] OTHER -> <<>>

\* what QImage(url.toLocalFile()) decodes: a.png is 400 x 300, b.tga is a
\* compressed TGA (not decodable: a null image), c.TGA is 1 x 1
SessionDisk ==
    (1 :> [w |-> 400, h |-> 300]) @@ (2 :> [w |-> 0, h |-> 0])
        @@ (3 :> [w |-> 1, h |-> 1])

\* the files of the batch
BatchDisk == (2 :> [w |-> 0, h |-> 0]) @@ (3 :> [w |-> 1, h |-> 1])

\* the files of a drop: c.TGA, and three files no codec decodes: d without a
\* suffix, e.pn, f.txt
DropDisk ==
    (3 :> [w |-> 1, h |-> 1]) @@ (4 :> [w |-> 0, h |-> 0])
        @@ (5 :> [w |-> 0, h |-> 0]) @@ (6 :> [w |-> 0, h |-> 0])

\* the names the user types in the save dialog
SaveNames ==
    {<<"x", ".", "t", "g", "a">>, <<"x", ".", "T", "G", "A">>,
     <<"x", ".", "T", "g", "a">>, <<"x", ".", "p", "n", "g">>,
     <<"x", ".", "y", ".", "t", "g", "a">>, <<"x">>,
     <<".", "t", "g", "a">>}

\* the values of doubleSpinBox_spec_alphaMul the model's user chooses
AlphaMultipliers == {0, 1}

\* the values of spinBox_normalmapSize the model's user chooses
SizePercents == {50, 100}

\* the elapsed times QElapsedTimer reports: below and not below the
\* auto-update threshold (in ms; the example of the comment above autoUpdate)
AutoUpdateThreshold_ms == 500
ElapsedTimes == {0, AutoUpdateThreshold_ms}

\* the values of doubleSpinBox_autoUpdateThreshold, in ms
Thresholds == {AutoUpdateThreshold_ms, 2 * AutoUpdateThreshold_ms}

(***************************************************************************)
(* The state.                                                              *)
(*   disk      what the image codec decodes at each URL (the environment)  *)
(*   ui        the widgets: ui.queue is listWidget_queue (each item its    *)
(*             URL and whether it is selected), ui.tab the current tab,    *)
(*             the rest the check boxes, spin boxes and buttons            *)
(*   input .. loadedImagePath   the fields of MainWindow                   *)
(*   runs      the processQueue calls on the stack, outermost first; each  *)
(*             waits in its processEvents call                             *)
(*   crashed   "no", or how the process died: "throw" (load's throw left   *)
(*             a slot) or "recursion" (preview and calc...AndPreview       *)
(*             calling each other without end)                             *)
(*   written   what the last handled event's save call wrote               *)
(*   last      what the last handled event's load call did: the URL, the   *)
(*             value it returned, and checkBox_keepLargeDetail before it   *)
(*   log       what else the last handled event did: log.ssao the calls of *)
(*             the SSAO generator (its two arguments and the input at the  *)
(*             time), log.notices the message boxes shown                  *)
(***************************************************************************)
VARIABLES disk, ui, input, normalmap, normalmapRawIntensity, specmap,
          displacementmap, ssaomap, lastCalctime_normal,
          lastCalctime_specular, lastCalctime_displace, lastCalctime_ssao,
          stopQueue, exportPath, loadedImagePath, runs, crashed, written,
          last, log

vars == <<disk, ui, input, normalmap, normalmapRawIntensity, specmap,
          displacementmap, ssaomap, lastCalctime_normal,
          lastCalctime_specular, lastCalctime_displace, lastCalctime_ssao,
          stopQueue, exportPath, loadedImagePath, runs, crashed, written,
          last, log>>

\* the window as one record, for the slots below
Win ==
    [ui |-> ui, input |-> input, normalmap |-> normalmap,
     normalmapRawIntensity |-> normalmapRawIntensity, specmap |-> specmap,
     displacementmap |-> displacementmap, ssaomap |-> ssaomap,
     lastCalctime_normal |-> lastCalctime_normal,
     lastCalctime_specular |-> lastCalctime_specular,
     lastCalctime_displace |-> lastCalctime_displace,
     lastCalctime_ssao |-> lastCalctime_ssao,
     stopQueue |-> stopQueue, exportPath |-> exportPath,
     loadedImagePath |-> loadedImagePath, crashed |-> crashed,
     written |-> written, last |-> last, log |-> log]

\* the window becomes s
Becomes(s) ==
    /\ ui' = s.ui
    /\ input' = s.input
    /\ normalmap' = s.normalmap
    /\ normalmapRawIntensity' = s.normalmapRawIntensity
    /\ specmap' = s.specmap
    /\ displacementmap' = s.displacementmap
    /\ ssaomap' = s.ssaomap
    /\ lastCalctime_normal' = s.lastCalctime_normal
    /\ lastCalctime_specular' = s.lastCalctime_specular
    /\ lastCalctime_displace' = s.lastCalctime_displace
    /\ lastCalctime_ssao' = s.lastCalctime_ssao
    /\ stopQueue' = s.stopQueue
    /\ exportPath' = s.exportPath
    /\ loadedImagePath' = s.loadedImagePath
    /\ crashed' = s.crashed
    /\ written' = s.written
    /\ last' = s.last
    /\ log' = s.log

NoLoad == [url |-> 0, ok |-> FALSE, keepBefore |-> FALSE]
NothingWritten == [by |-> "none", name |-> <<>>, files |-> {}]
NothingLogged == [ssao |-> <<>>, notices |-> {}, gen |-> {}, auto |-> {}]

\* the window when the event loop hands it the next event
Fresh ==
    [Win EXCEPT !.written = NothingWritten, !.last = NoLoad,
                !.log = NothingLogged]

\* QMessageBox::information with the given title
notice(s, title) == [s EXCEPT !.log.notices = @ \cup {title}]

(***************************************************************************)
(* The generators (normalmapgenerator.cpp, specularmapgenerator.cpp,       *)
(* ssaogenerator.cpp, boxblur.cpp): a map is the size of its source and    *)
(* remembers the source and the parameters; an empty source gives an empty *)
(* map.                                                                    *)
(***************************************************************************)
calculateNormalmap(img, par) ==
    IF isNull(img) THEN NullImage ELSE [img EXCEPT !.par = par]

\* the intensity map the normal map generator keeps: with keepLargeDetail it
\* is the one of the scaled-down pass
getIntensityMap(img, keepLargeDetail, largeDetailScale) ==
    IF isNull(img) THEN NullImage
    ELSE IF ~keepLargeDetail THEN [img EXCEPT !.par = <<>>]
    ELSE LET sw == (img.w * largeDetailScale) \div 100
             sh == (img.h * largeDetailScale) \div 100
         IN  [img EXCEPT !.w = IF sw < 1 THEN 1 ELSE sw,
                         !.h = IF sh < 1 THEN 1 ELSE sh, !.par = <<>>]

calculateSpecmap(img, par) ==
    IF isNull(img) THEN NullImage ELSE [img EXCEPT !.par = par]

calculateSsaomap(normal, height, par) ==
    IF isNull(normal) THEN NullImage
    ELSE [normal EXCEPT !.par = <<normal.par, height.w, height.h>> \o par]

(***************************************************************************)
(* The slots of MainWindow.                                                *)
(***************************************************************************)
\* the parameters calcNormal reads from the widgets
NormalPar(s) ==
    <<s.ui.normalmapSize, s.ui.keepLargeDetail, s.ui.largeDetailScale>>

\* the parameters calcSpec reads: the alpha multiplier
SpecPar(s) == <<s.ui.specAlphaMul>>

\* calcDisplace with the alpha multiplier of the specular map
DisplaceParWithSpecAlpha(s) == <<s.ui.specAlphaMul, s.ui.displaceBlur>>

\* the parameters calcDisplace uses: alphaMultiplier = 0.0, and the blur
DisplacePar(s) == <<0, s.ui.displaceBlur>>

calcNormal(s) ==
    IF isNull(s.input) THEN s
    ELSE LET sizePercent == s.ui.normalmapSize
             inputScaled ==
                 IF sizePercent # 100
                 THEN scaled(s.input,
                             calcPercentage(s.input.w, sizePercent),
                             calcPercentage(s.input.h, sizePercent))
                 ELSE s.input
         IN  [s EXCEPT
                !.log.gen = @ \cup {"normal"},
                !.normalmap = calculateNormalmap(inputScaled, NormalPar(s)),
                !.normalmapRawIntensity =
                    getIntensityMap(inputScaled, s.ui.keepLargeDetail,
                                    s.ui.largeDetailScale)]

calcSpec(s) ==
    IF isNull(s.input) THEN s
    ELSE [s EXCEPT !.log.gen = @ \cup {"spec"},
                   !.specmap = calculateSpecmap(s.input, SpecPar(s))]

calcDisplace(s) ==
    IF isNull(s.input) THEN s
    ELSE [s EXCEPT
            !.log.gen = @ \cup {"displace"},
            !.displacementmap = calculateSpecmap(s.input, DisplacePar(s))]

\* calcSsao that calculates the normal map on every call
calcSsaoRecalculating(s) ==
    IF isNull(s.input) THEN s
    ELSE LET n == calcNormal(s)
             depth == IF isNull(n.normalmapRawIntensity)
                         \/ isNull(n.normalmap)
                      THEN NullImage
                      ELSE [n.normalmapRawIntensity EXCEPT
                               !.w = n.normalmap.w, !.h = n.normalmap.h]
         IN  [n EXCEPT
                !.log.gen = @ \cup {"ssao"},
                !.normalmapRawIntensity = depth,
                !.ssaomap = calculateSsaomap(n.normalmap, depth, <<>>),
                !.log.ssao = Append(@, [normal |-> n.normalmap,
                                        height |-> depth,
                                        input |-> n.input])]

calcSsao(s) ==
    IF isNull(s.input) THEN s
    ELSE LET n == IF isNull(s.normalmap) THEN calcNormal(s) ELSE s
             \* QImage::scaled(w, h) with Qt::IgnoreAspectRatio
             depth == IF isNull(n.normalmapRawIntensity)
                         \/ isNull(n.normalmap)
                      THEN NullImage
                      ELSE [n.normalmapRawIntensity EXCEPT
                               !.w = n.normalmap.w, !.h = n.normalmap.h]
         IN  [n EXCEPT
                !.log.gen = @ \cup {"ssao"},
                !.normalmapRawIntensity = depth,
                !.ssaomap = calculateSsaomap(n.normalmap, depth, <<>>),
                !.log.ssao = Append(@, [normal |-> n.normalmap,
                                        height |-> depth,
                                        input |-> n.input])]

\* preview(1) at the end of calcNormalAndPreview (and preview(4) at the end of
\* calcSsaoAndPreview) calls the slot again when the map is still empty: the
\* same computation, empty again, without end
Recursion(s) == [s EXCEPT !.crashed = "recursion"]

\* preview(int tab) when it has nothing to generate: the scene is cleared
\* (line 562) and the pixmap of the tab's image, empty or not, is added
showMap(s) == [s EXCEPT !.ui.scene = 1]

calcNormalAndPreview(s, elapsed) ==
    LET c == [calcNormal(s) EXCEPT !.lastCalctime_normal = elapsed]
    IN  IF ~isNull(c.input) /\ isNull(c.normalmap) THEN Recursion(c)
        ELSE showMap(c)

calcSpecAndPreview(s, elapsed) ==
    LET c == [calcSpec(s) EXCEPT !.lastCalctime_specular = elapsed]
    IN  IF ~isNull(c.input) /\ isNull(c.specmap) THEN Recursion(c)
        ELSE showMap(c)

calcDisplaceAndPreview(s, elapsed) ==
    LET c == [calcDisplace(s) EXCEPT !.lastCalctime_displace = elapsed]
    IN  IF ~isNull(c.input) /\ isNull(c.displacementmap)
        THEN Recursion(c) ELSE showMap(c)

calcSsaoAndPreview(s, elapsed) ==
    LET c == [calcSsao(s) EXCEPT !.lastCalctime_ssao = elapsed]
    IN  IF ~isNull(c.input) /\ isNull(c.ssaomap) THEN Recursion(c)
        ELSE showMap(c)

\* QGraphicsScene::clear (line 562) and addPixmap: ui.scene counts the pixmap
\* items of the scene
clearScene(s) == [s EXCEPT !.ui.scene = 0]
addPixmap(g) == IF g.crashed # "no" THEN g ELSE [g EXCEPT !.ui.scene = @ + 1]

\* preview(int tab) without the test for an empty map: the tab's map is
\* generated whenever an image is loaded
previewRegenerating(s, tab, elapsed) ==
    CASE tab = 0 -> addPixmap(clearScene(s))
      [] tab = 1 ->
             addPixmap(IF ~isNull(s.input)
                       THEN calcNormalAndPreview(clearScene(s), elapsed)
                       ELSE clearScene(s))
      [] tab = 2 ->
             addPixmap(IF ~isNull(s.input)
                       THEN calcSpecAndPreview(clearScene(s), elapsed)
                       ELSE clearScene(s))
      [] tab = 3 ->
             addPixmap(IF ~isNull(s.input)
                       THEN calcDisplaceAndPreview(clearScene(s), elapsed)
                       ELSE clearScene(s))
      [] tab = 4 ->
             addPixmap(IF ~isNull(s.input)
                       THEN calcSsaoAndPreview(clearScene(s), elapsed)
                       ELSE clearScene(s))
      [] OTHER -> clearScene(s)

\* preview(int tab): clears the scene, generates the tab's map when an image
\* is loaded and the map is empty, then adds the pixmap of the tab's map to
\* the scene
preview(s, tab, elapsed) ==
    CASE tab = 0 -> addPixmap(clearScene(s))
      [] tab = 1 ->
             addPixmap(IF ~isNull(s.input) /\ isNull(s.normalmap)
                       THEN calcNormalAndPreview(clearScene(s), elapsed)
                       ELSE clearScene(s))
      [] tab = 2 ->
             addPixmap(IF ~isNull(s.input) /\ isNull(s.specmap)
                       THEN calcSpecAndPreview(clearScene(s), elapsed)
                       ELSE clearScene(s))
      [] tab = 3 ->
             addPixmap(IF ~isNull(s.input) /\ isNull(s.displacementmap)
                       THEN calcDisplaceAndPreview(clearScene(s), elapsed)
                       ELSE clearScene(s))
      [] tab = 4 ->
             addPixmap(IF ~isNull(s.input) /\ isNull(s.ssaomap)
                       THEN calcSsaoAndPreview(clearScene(s), elapsed)
                       ELSE clearScene(s))
      [] OTHER -> clearScene(s)

\* autoUpdate's switch with <= for < in the tests of the last calculation time
autoUpdateSlotAtThreshold(s, elapsed) ==
    CASE s.ui.tab = 1
           /\ s.lastCalctime_normal <= s.ui.autoUpdateThreshold_ms ->
             calcNormalAndPreview(s, elapsed)
      [] s.ui.tab = 2
           /\ s.lastCalctime_specular <= s.ui.autoUpdateThreshold_ms ->
             calcSpecAndPreview(s, elapsed)
      [] s.ui.tab = 3
           /\ s.lastCalctime_displace <= s.ui.autoUpdateThreshold_ms ->
             calcDisplaceAndPreview(s, elapsed)
      [] s.ui.tab = 4
           /\ s.lastCalctime_ssao <= s.ui.autoUpdateThreshold_ms ->
             calcSsaoAndPreview(s, elapsed)
      [] OTHER -> s

\* the slot of autoUpdate's switch for the current tab, when the last
\* calculation of its map was faster than the threshold of
\* doubleSpinBox_autoUpdateThreshold
autoUpdateSlot(s, elapsed) ==
    CASE s.ui.tab = 1
           /\ s.lastCalctime_normal < s.ui.autoUpdateThreshold_ms ->
             calcNormalAndPreview(s, elapsed)
      [] s.ui.tab = 2
           /\ s.lastCalctime_specular < s.ui.autoUpdateThreshold_ms ->
             calcSpecAndPreview(s, elapsed)
      [] s.ui.tab = 3
           /\ s.lastCalctime_displace < s.ui.autoUpdateThreshold_ms ->
             calcDisplaceAndPreview(s, elapsed)
      [] s.ui.tab = 4
           /\ s.lastCalctime_ssao < s.ui.autoUpdateThreshold_ms ->
             calcSsaoAndPreview(s, elapsed)
      [] OTHER -> s

\* the maps generated in r were generated by autoUpdate; before are the maps
\* generated earlier in the same event
generatedByAutoUpdate(r, before) ==
    [r EXCEPT !.log = [ssao |-> @.ssao, notices |-> @.notices,
                       gen |-> before \cup @.gen,
                       auto |-> @.auto \cup @.gen]]

\* autoUpdate; log.auto keeps the maps it generated
autoUpdate(s, elapsed) ==
    IF ~s.ui.autoUpdate \/ ~s.ui.autoUpdateEnabled THEN s
    ELSE generatedByAutoUpdate(
             autoUpdateSlot([s EXCEPT !.log.gen = {}], elapsed), s.log.gen)

\* the decoded image of a URL
Decode(url) ==
    IF url \in DOMAIN disk
    THEN [src |-> IF disk[url].w = 0 \/ disk[url].h = 0 THEN 0 ELSE url,
          w |-> disk[url].w, h |-> disk[url].h, par |-> <<>>]
    ELSE NullImage

\* load without line 179
ClearAllButSsao(s) ==
    [s EXCEPT !.normalmap = NullImage, !.specmap = NullImage,
              !.displacementmap = NullImage]

\* load without lines 174-179
KeepGenerated(s) == s

\* load, lines 174-179: clear all previously generated images
clearGenerated(s) ==
    [s EXCEPT !.normalmap = NullImage, !.specmap = NullImage,
              !.displacementmap = NullImage, !.ssaomap = NullImage]

LongestSide(img) == IF img.w > img.h THEN img.w ELSE img.h

load(s, url, elapsed) ==
    IF ~isValid(url) THEN [s EXCEPT !.crashed = "throw"]
    ELSE
    LET did == [url |-> url, ok |-> FALSE,
                keepBefore |-> s.ui.keepLargeDetail]
        a == [s EXCEPT !.input = Decode(url)]
    IN  IF isNull(a.input)
        THEN notice([a EXCEPT !.last = did], "Error while loading image")
        ELSE
        LET imageSize == LongestSide(a.input)
            scale == largeDetailScaleFor(imageSize)
            b == [a EXCEPT
                    !.exportPath = IF s.exportPath = 0 THEN 1
                                   ELSE s.exportPath,
                    !.loadedImagePath = url,
                    !.ui.autoUpdateEnabled = TRUE,
                    !.ui.keepLargeDetail = keepLargeDetailFor(imageSize),
                    !.ui.largeDetailScale = scale]
            \* QSpinBox::setValue emits valueChanged, connected to
            \* autoUpdate, when the value changes
            c == IF scale # s.ui.largeDetailScale
                 THEN autoUpdate(b, elapsed) ELSE b
        IN  IF c.crashed # "no" THEN c
            ELSE \* preview(0), directly or through displayChannelIntensity
                 showMap([clearGenerated([c EXCEPT !.ui.tab = 0])
                             EXCEPT !.last = [did EXCEPT !.ok = TRUE]])

\* the name save builds for one map: baseName + "_normal." + suffix
OutName(name, tag, sfx) == baseName(name) \o <<tag, ".">> \o sfx

\* the suffix of the output names with suffix == "tga" for line 502
CaseSensitiveOutSuffix(name) ==
    IF suffix(name) = TGA THEN PNG ELSE suffix(name)

\* save, lines 500-503: the suffix of the output names
outSuffix(name) ==
    IF toLower(suffix(name)) = TGA THEN PNG ELSE suffix(name)

\* line 511 with the check box of line 518
SavesNormalBySpecBox(s) == ~isNull(s.normalmap) /\ s.ui.genSpec

\* save, lines 511, 518, 525: whether each map is written
savesNormal(s) == ~isNull(s.normalmap) /\ s.ui.genNormal
savesSpec(s) == ~isNull(s.specmap) /\ s.ui.genSpec
savesDisplace(s) == ~isNull(s.displacementmap) /\ s.ui.genDisplace

\* save(url) for the url of file name in directory dir (0: an invalid url);
\* files are the QImage::save calls it makes
save(s, dir, name, by) ==
    IF dir = 0 THEN s
    ELSE LET sfx == outSuffix(name)
             files ==
                 (IF savesNormal(s)
                  THEN {[name |-> OutName(name, "_normal", sfx),
                         kind |-> "normal", img |-> s.normalmap]}
                  ELSE {})
                 \cup
                 (IF savesSpec(s)
                  THEN {[name |-> OutName(name, "_spec", sfx),
                         kind |-> "spec", img |-> s.specmap]}
                  ELSE {})
                 \cup
                 (IF savesDisplace(s)
                  THEN {[name |-> OutName(name, "_displace", sfx),
                         kind |-> "displace", img |-> s.displacementmap]}
                  ELSE {})
         IN  [s EXCEPT !.written = [by |-> by, name |-> name,
                                    files |-> files],
                       !.exportPath = dir]

\* addImageToQueue(QUrl): a new, unselected item at the end of the list
addImageToQueue(s, url) ==
    [s EXCEPT !.ui.queue = Append(@, [url |-> url, selected |-> FALSE])]

\* loadSingleDropped
loadSingleDropped(s, url, elapsed) ==
    LET a == load(s, url, elapsed)
    IN  IF a.crashed = "no" /\ a.last.ok THEN addImageToQueue(a, url) ELSE a

\* QString::contains: needle occurs in hay as a substring
contains(hay, needle) ==
    \E k \in 0..(Len(hay) - Len(needle)) :
        SubSeq(hay, k + 1, k + Len(needle)) = needle

\* "png jpg jpeg tiff ppm bmp xpm tga"
supported ==
    <<"p", "n", "g", " ", "j", "p", "g", " ", "j", "p", "e", "g", " ",
      "t", "i", "f", "f", " ", "p", "p", "m", " ", "b", "m", "p", " ",
      "x", "p", "m", " ", "t", "g", "a">>

\* loadMultipleDropped, lines 91-94: supported.contains(suffix)
isSupported(url) == contains(supported, toLower(suffix(FileName(url))))

\* loadMultipleDropped: the loop over urls from position k on; loaded is
\* loadedFirstValidImage
RECURSIVE dropFrom(_, _, _, _, _)
dropFrom(s, urls, k, loaded, elapsed) ==
    IF k > Len(urls) \/ s.crashed # "no" THEN s
    ELSE IF isSupported(urls[k])
         THEN LET q == addImageToQueue(s, urls[k])
              IN  IF ~loaded
                  THEN dropFrom(load(q, urls[k], elapsed), urls, k + 1,
                                TRUE, elapsed)
                  ELSE dropFrom(q, urls, k + 1, loaded, elapsed)
         ELSE dropFrom(s, urls, k + 1, loaded, elapsed)

\* containedInvalidFormat is set by an url of the else branch; the notice of
\* lines 108-110 follows the loop
loadMultipleDropped(s, urls, elapsed) ==
    LET dropped == dropFrom(s, urls, 1, FALSE, elapsed)
    IN  IF dropped.crashed = "no"
           /\ \E k \in 1..Len(urls) : ~isSupported(urls[k])
        THEN notice(dropped, "Not All Images Loaded Into Queue")
        ELSE dropped

\* removeImagesFromQueue: qDeleteAll(selectedItems())
removeImagesFromQueue(s) ==
    [s EXCEPT !.ui.queue = SelectSeq(@, LAMBDA item : ~item.selected)]

\* processQueue, lines 448-454: calculate the maps whose box is checked
calcNormalIfChecked(s) == IF s.ui.genNormal THEN calcNormal(s) ELSE s
calcSpecIfChecked(s) == IF s.ui.genSpec THEN calcSpec(s) ELSE s
calcDisplaceIfChecked(s) == IF s.ui.genDisplace THEN calcDisplace(s) ELSE s

calcChecked(s) ==
    calcDisplaceIfChecked(calcSpecIfChecked(calcNormalIfChecked(s)))

\* processQueue, lines 456-460: save under exportPath + "/" + item->text()
\* (directory 2 is the root, the path an empty exportPath gives)
saveItem(s, url) ==
    save(s, IF s.exportPath = 0 THEN 2 ELSE s.exportPath, FileName(url),
         "queue")

\* processQueue, lines 448-460, after load(item->getUrl()) made the window s
\* (nothing of it runs when load's throw ended the process)
afterLoad(s, url) ==
    IF s.crashed # "no" THEN s ELSE saveItem(calcChecked(s), url)

\* one pass of the body of processQueue's loop for index i (from 0), up to
\* the processEvents call
loopBody(s, i, elapsed) ==
    afterLoad(load([s EXCEPT !.ui.queue[i + 1].selected = TRUE],
                   s.ui.queue[i + 1].url, elapsed),
              s.ui.queue[i + 1].url)

\* what follows the loop of processQueue (lines 466-471)
afterLoop(s) == [s EXCEPT !.ui.stopEnabled = FALSE, !.stopQueue = FALSE]

\* the condition of the loop of processQueue
loopGoesOn(s, i) == i < Len(s.ui.queue) /\ ~s.stopQueue

\* stopProcessingQueue
stopProcessingQueue(s) == [s EXCEPT !.stopQueue = TRUE]

(***************************************************************************)
(* The initial state: the window after its constructor, nothing dropped.   *)
(* The designer's defaults of the widgets are those of the model's user    *)
(* interface: every generate box checked, auto-update checked and disabled *)
(* until an image is loaded, the stop button disabled.                     *)
(***************************************************************************)
InitUi ==
    [queue |-> <<>>, tab |-> 0, autoUpdate |-> TRUE,
     autoUpdateEnabled |-> FALSE, keepLargeDetail |-> TRUE,
     largeDetailScale |-> 25, normalmapSize |-> 100, specAlphaMul |-> 0,
     displaceBlur |-> FALSE, genNormal |-> TRUE, genSpec |-> TRUE,
     genDisplace |-> TRUE, stopEnabled |-> FALSE, scene |-> 0,
     autoUpdateThreshold_ms |-> AutoUpdateThreshold_ms]

InitWindow ==
    /\ ui = InitUi
    /\ input = NullImage
    /\ normalmap = NullImage
    /\ normalmapRawIntensity = NullImage
    /\ specmap = NullImage
    /\ displacementmap = NullImage
    /\ ssaomap = NullImage
    /\ lastCalctime_normal = 0
    /\ lastCalctime_specular = 0
    /\ lastCalctime_displace = 0
    /\ lastCalctime_ssao = 0
    /\ stopQueue = FALSE
    /\ exportPath = 0
    /\ loadedImagePath = 0
    /\ runs = <<>>
    /\ crashed = "no"
    /\ written = NothingWritten
    /\ last = NoLoad
    /\ log = NothingLogged

Urls == DOMAIN disk

\* the event loop takes the next event: the process lives, and it is the main
\* loop or the processEvents call of the innermost processQueue run
Idle == crashed = "no"

Handled(s) == Becomes(s) /\ UNCHANGED <<disk, runs>>

(***************************************************************************)
(* The events.                                                             *)
(***************************************************************************)
\* an image is dropped on the view
LoadSingleDropped(url, elapsed) ==
    /\ Idle
    /\ Handled(loadSingleDropped(Fresh, url, elapsed))

\* several images are dropped, or chosen in the file dialog
LoadMultipleDropped(urls, elapsed) ==
    /\ Idle
    /\ Handled(loadMultipleDropped(Fresh, urls, elapsed))

\* a queue item is double-clicked
QueueItemDoubleClicked(k, elapsed) ==
    /\ Idle
    /\ k \in 1..Len(ui.queue)
    /\ Handled(load(Fresh, ui.queue[k].url, elapsed))

\* the calculate buttons
CalcNormalClicked(elapsed) ==
    Idle /\ Handled(calcNormalAndPreview(Fresh, elapsed))

CalcSpecClicked(elapsed) ==
    Idle /\ Handled(calcSpecAndPreview(Fresh, elapsed))

CalcDisplaceClicked(elapsed) ==
    Idle /\ Handled(calcDisplaceAndPreview(Fresh, elapsed))

CalcSsaoClicked(elapsed) ==
    Idle /\ Handled(calcSsaoAndPreview(Fresh, elapsed))

\* a tab is clicked: the tab widget shows it, tabBarClicked calls preview(tab)
TabBarClicked(tab, elapsed) ==
    /\ Idle
    /\ Handled(preview([Fresh EXCEPT !.ui.tab = tab], tab, elapsed))

\* another tab is selected from the keyboard: the tab widget shows it;
\* tabBarClicked, the only signal of the tab widget that is connected, is
\* emitted for mouse clicks only, so no slot runs
TabSelectedByKey(tab) ==
    /\ Idle
    /\ tab # ui.tab
    /\ Handled([Fresh EXCEPT !.ui.tab = tab])

\* spinBox_normalmapSize gets another value: valueChanged calls autoUpdate
NormalmapSizeChanged(percent, elapsed) ==
    /\ Idle
    /\ percent # ui.normalmapSize
    /\ Handled(autoUpdate([Fresh EXCEPT !.ui.normalmapSize = percent],
                          elapsed))

\* checkBox_keepLargeDetail is clicked: clicked calls autoUpdate
KeepLargeDetailClicked(elapsed) ==
    /\ Idle
    /\ Handled(autoUpdate([Fresh EXCEPT !.ui.keepLargeDetail = ~@], elapsed))

\* doubleSpinBox_spec_alphaMul gets another value: valueChanged calls
\* autoUpdate
SpecAlphaMulChanged(value, elapsed) ==
    /\ Idle
    /\ value # ui.specAlphaMul
    /\ Handled(autoUpdate([Fresh EXCEPT !.ui.specAlphaMul = value], elapsed))

\* checkBox_displace_blur is clicked: no slot is connected to it
DisplaceBlurClicked ==
    Idle /\ Handled([Fresh EXCEPT !.ui.displaceBlur = ~@])

\* checkBox_autoUpdate is clicked: no slot is connected to it
AutoUpdateClicked ==
    /\ Idle
    /\ ui.autoUpdateEnabled
    /\ Handled([Fresh EXCEPT !.ui.autoUpdate = ~@])

\* doubleSpinBox_autoUpdateThreshold gets another value: no slot is connected
\* to it; enableAutoupdate enables it together with the check box
AutoUpdateThresholdChanged(value) ==
    /\ Idle
    /\ ui.autoUpdateEnabled
    /\ value # ui.autoUpdateThreshold_ms
    /\ Handled([Fresh EXCEPT !.ui.autoUpdateThreshold_ms = value])

\* the generate check boxes of the queue: no slot is connected to them
GenerateNormalClicked == Idle /\ Handled([Fresh EXCEPT !.ui.genNormal = ~@])
GenerateSpecClicked == Idle /\ Handled([Fresh EXCEPT !.ui.genSpec = ~@])
GenerateDisplaceClicked ==
    Idle /\ Handled([Fresh EXCEPT !.ui.genDisplace = ~@])

\* pushButton_removeImagesFromQueue is clicked
RemoveImagesFromQueue ==
    /\ Idle
    /\ \E k \in 1..Len(ui.queue) : ui.queue[k].selected
    /\ Handled(removeImagesFromQueue(Fresh))

\* pushButton_stopProcessingQueue is clicked (a disabled button takes no
\* click); every run on the stack has now seen a stop request
StopProcessingQueue ==
    /\ Idle
    /\ ui.stopEnabled
    /\ Becomes(stopProcessingQueue(Fresh))
    /\ runs' = [k \in 1..Len(runs) |-> [runs[k] EXCEPT !.stopped = TRUE]]
    /\ UNCHANGED disk

\* pushButton_processQueue is clicked: processQueue runs up to its first
\* processEvents call, or returns
ProcessQueue(elapsed) ==
    /\ Idle
    /\ Len(runs) < MaxDepth
    /\ UNCHANGED disk
    /\ IF Len(ui.queue) = 0 \/ ~isValid(exportPath)
       THEN /\ Becomes(IF Len(ui.queue) = 0 THEN Fresh
                       ELSE notice(Fresh, "Invalid Export Path"))
            /\ UNCHANGED runs
       ELSE LET s == [Fresh EXCEPT !.ui.stopEnabled = TRUE]
            IN  IF loopGoesOn(s, 0)
                THEN /\ Becomes(loopBody(s, 0, elapsed))
                     /\ runs' = Append(runs,
                            [i |-> 0,
                             start |-> [k \in 1..Len(ui.queue) |->
                                           ui.queue[k].url],
                             done |-> <<ui.queue[1].url>>,
                             stopped |-> FALSE])
                ELSE Becomes(afterLoop(s)) /\ UNCHANGED runs

\* the processEvents call of the innermost run returns: i++, the loop's
\* condition, and the next pass or the end of processQueue
ProcessEventsReturns(elapsed) ==
    /\ Idle
    /\ runs # <<>>
    /\ UNCHANGED disk
    /\ LET top == runs[Len(runs)]
           i == top.i + 1
       IN  IF loopGoesOn(Fresh, i)
           THEN /\ Becomes(loopBody(Fresh, i, elapsed))
                /\ runs' = [runs EXCEPT ![Len(runs)] =
                              [top EXCEPT !.i = i,
                                  !.done = Append(@, ui.queue[i + 1].url)]]
           ELSE /\ Becomes(afterLoop(Fresh))
                /\ runs' = SubSeq(runs, 1, Len(runs) - 1)

\* pushButton_save is clicked: the dialog gives a name in directory 1, or
\* (dir = 0) an invalid url when it is cancelled
SaveUserFilePath(dir, name) ==
    Idle /\ Handled(save(Fresh, dir, name, "dialog"))

(***************************************************************************)
(* The specifications.                                                     *)
(***************************************************************************)
\* sequences of one or two of the URLs
UrlLists == {<<u>> : u \in Urls} \cup {<<u, v>> : u \in Urls, v \in Urls}

\* QElapsedTimer is read by a calculation only; an event on the input tab
\* that is no calculate click starts none
TimerReads == IF ui.tab = 0 THEN {0} ELSE ElapsedTimes

\* The interactive session: images are loaded and reloaded, maps are
\* calculated and previewed, parameters changed, with auto-update checked
\* (the box is clicked in SpecAuto).
Init == disk = SessionDisk /\ InitWindow

Next ==
    \/ \E url \in Urls, elapsed \in TimerReads :
           /\ LoadSingleDropped(url, elapsed)
           /\ Len(ui'.queue) <= MaxSessionQueue
    \/ \E k \in 1..MaxSessionQueue, elapsed \in TimerReads :
           QueueItemDoubleClicked(k, elapsed)
    \/ \E elapsed \in ElapsedTimes : CalcNormalClicked(elapsed)
    \/ \E elapsed \in ElapsedTimes : CalcSpecClicked(elapsed)
    \/ \E elapsed \in ElapsedTimes : CalcDisplaceClicked(elapsed)
    \/ \E elapsed \in ElapsedTimes : CalcSsaoClicked(elapsed)
    \/ \E tab \in 0..4, elapsed \in ElapsedTimes : TabBarClicked(tab, elapsed)
    \/ \E percent \in SizePercents, elapsed \in TimerReads :
           NormalmapSizeChanged(percent, elapsed)

Spec == Init /\ [][Next]_vars

\* The batch and its yield: images are dropped into the queue, the queue is
\* processed, and in the processEvents call between two items the user stops
\* the run, removes the selected items or starts another run.
InitQueue == disk = BatchDisk /\ InitWindow

NextQueue ==
    \/ \E urls \in UrlLists, elapsed \in TimerReads :
           /\ LoadMultipleDropped(urls, elapsed)
           /\ Len(ui'.queue) <= MaxQueue
    \/ \E elapsed \in TimerReads : ProcessQueue(elapsed)
    \/ \E elapsed \in TimerReads : ProcessEventsReturns(elapsed)
    \/ StopProcessingQueue
    \/ RemoveImagesFromQueue

SpecQueue == InitQueue /\ [][NextQueue]_vars

\* The batch and its outputs: the queue is processed while the user changes
\* the generate boxes and the size of the normal map.
NextBatch ==
    \/ \E urls \in UrlLists, elapsed \in TimerReads :
           /\ LoadMultipleDropped(urls, elapsed)
           /\ Len(ui'.queue) <= MaxQueue
    \/ \E elapsed \in TimerReads : ProcessQueue(elapsed)
    \/ \E elapsed \in TimerReads : ProcessEventsReturns(elapsed)
    \/ GenerateNormalClicked
    \/ GenerateSpecClicked
    \/ GenerateDisplaceClicked
    \/ \E percent \in SizePercents, elapsed \in TimerReads :
           NormalmapSizeChanged(percent, elapsed)

SpecBatch == InitQueue /\ [][NextBatch]_vars

\* Saving: maps of a loaded image are calculated and saved under the names
\* the user types.
NextSave ==
    \/ \E url \in Urls, elapsed \in TimerReads :
           /\ LoadSingleDropped(url, elapsed)
           /\ Len(ui'.queue) <= MaxSessionQueue
    \/ \E elapsed \in ElapsedTimes : CalcNormalClicked(elapsed)
    \/ \E elapsed \in ElapsedTimes : CalcSpecClicked(elapsed)
    \/ \E elapsed \in ElapsedTimes : CalcDisplaceClicked(elapsed)
    \/ DisplaceBlurClicked
    \/ GenerateNormalClicked
    \/ GenerateSpecClicked
    \/ GenerateDisplaceClicked
    \/ \E name \in SaveNames : SaveUserFilePath(1, name)
    \/ SaveUserFilePath(0, <<>>)

SpecSave == Init /\ [][NextSave]_vars

\* Loading: one image file of any size up to MaxImageSize, wide or tall.
InitDetail ==
    /\ \E size \in 1..MaxImageSize :
           \/ disk = (1 :> [w |-> size, h |-> 1])
           \/ disk = (1 :> [w |-> 1, h |-> size])
    /\ InitWindow

NextDetail ==
    \/ \E url \in Urls, elapsed \in TimerReads :
           /\ LoadSingleDropped(url, elapsed)
           /\ Len(ui'.queue) <= MaxSessionQueue
    \/ \E k \in 1..MaxSessionQueue, elapsed \in TimerReads :
           QueueItemDoubleClicked(k, elapsed)
    \/ \E elapsed \in TimerReads : KeepLargeDetailClicked(elapsed)
    \/ \E elapsed \in ElapsedTimes : CalcNormalClicked(elapsed)

SpecDetail == InitDetail /\ [][NextDetail]_vars

\* Specular and displacement maps: an image is loaded, the alpha multiplier
\* and the blur box are changed, the two maps are calculated and previewed.
NextMaps ==
    \/ \E url \in Urls, elapsed \in TimerReads :
           /\ LoadSingleDropped(url, elapsed)
           /\ Len(ui'.queue) <= MaxSessionQueue
    \/ \E elapsed \in ElapsedTimes : CalcSpecClicked(elapsed)
    \/ \E elapsed \in ElapsedTimes : CalcDisplaceClicked(elapsed)
    \/ \E tab \in {0, 2, 3}, elapsed \in ElapsedTimes :
           TabBarClicked(tab, elapsed)
    \/ \E value \in AlphaMultipliers, elapsed \in TimerReads :
           SpecAlphaMulChanged(value, elapsed)
    \/ DisplaceBlurClicked

SpecMaps == Init /\ [][NextMaps]_vars

\* Dropping: lists of one or two urls are dropped (or given on the command
\* line), among them files of any name and the invalid url 0, a
\* default-constructed QUrl; queue items are loaded and the queue is processed.
InitDrop == disk = DropDisk /\ InitWindow

DropUrls == Urls \cup {0}

DropLists ==
    {<<u>> : u \in DropUrls} \cup {<<u, v>> : u \in DropUrls, v \in DropUrls}

NextDrop ==
    \/ \E urls \in DropLists, elapsed \in TimerReads :
           /\ LoadMultipleDropped(urls, elapsed)
           /\ Len(ui'.queue) <= MaxQueue
    \/ \E k \in 1..MaxQueue, elapsed \in TimerReads :
           QueueItemDoubleClicked(k, elapsed)
    \/ \E elapsed \in TimerReads : ProcessQueue(elapsed)
    \/ \E elapsed \in TimerReads : ProcessEventsReturns(elapsed)

SpecDrop == InitDrop /\ [][NextDrop]_vars

(***************************************************************************)
(* The claims.                                                             *)
(***************************************************************************)
\* the event just handled loaded an image, and load returned true
Loaded == last.ok /\ crashed = "no"

\* the longest side of the loaded image
ImageSize == IF input.w > input.h THEN input.w ELSE input.h

\* C6 as stated: for a loaded image with 300 <= imageSize <= 2300 the
\* large-detail scale is -0.037*imageSize + 100 rounded to the nearest integer.
C6_RoundedScale ==
    (Loaded /\ ImageSize >= 300 /\ ImageSize <= 2300)
        => ui.largeDetailScale = RoundedDetailScale(ImageSize)

\* C6 amended: for a loaded image with 300 <= imageSize <= 2300 the
\* large-detail scale is -0.037*imageSize + 100 with its fraction cut off:
\* the integer n with n <= 100 - 0.037*imageSize < n + 1.
C6_TruncatedScale ==
    (Loaded /\ ImageSize >= 300 /\ ImageSize <= 2300)
        => /\ 1000 * ui.largeDetailScale <= 100000 - 37 * ImageSize
           /\ 100000 - 37 * ImageSize < 1000 * (ui.largeDetailScale + 1)

\* C6's case: an image of 300 px is loaded and the scale is 88 (88.9 cut off)
C6_Witness == Loaded /\ ImageSize = 300 /\ ui.largeDetailScale = 88

\* C7: after a successful load keep-large-detail is unchecked exactly when the
\* longest side is below 300 px, whatever it was before the load.
C7_KeepLargeDetail == Loaded => (ui.keepLargeDetail <=> ImageSize >= 300)

\* C7's case: a load of an image of 300 px checks a box that was unchecked
C7_Witness ==
    Loaded /\ ImageSize = 300 /\ ~last.keepBefore /\ ui.keepLargeDetail

\* C8: after a successful load of an image with longest side above 2300 px the
\* large-detail scale is 20.
C8_ClampedScale == (Loaded /\ ImageSize > 2300) => ui.largeDetailScale = 20

\* C8's case: an image of 2301 px, the first size that is clamped, is loaded
C8_Witness == Loaded /\ ImageSize = 2301 /\ ui.largeDetailScale = 20

\* C9: the large-detail scale load sets is in 1..100 for every image size, and
\* so is the scale every normal map was generated with.
C9_ScaleInRange ==
    /\ Loaded => ui.largeDetailScale \in 1..100
    /\ ~isNull(normalmap) => normalmap.par[3] \in 1..100

\* C9's case: a normal map was generated for a loaded image so large that the
\* linear formula alone is below 1
C9_Witness ==
    /\ ~isNull(normalmap)
    /\ normalmap.src = loadedImagePath
    /\ 100000 - 37 * ImageSize < 1000

\* C10: save never writes a file with suffix tga; when the requested name has
\* suffix tga in any letter case, every output name has suffix png.
C10_NoTgaOutput ==
    \A f \in written.files :
        /\ toLower(suffix(f.name)) # TGA
        /\ toLower(suffix(written.name)) = TGA => suffix(f.name) = PNG

\* C10's case: save wrote files for a requested name with suffix TGA
C10_Witness ==
    /\ written.by = "dialog"
    /\ suffix(written.name) = <<"T", "G", "A">>
    /\ written.files # {}

\* the kinds of the files the save of the event just handled wrote
WrittenKinds == {f.kind : f \in written.files}

\* the generate boxes that are checked
CheckedKinds ==
    (IF ui.genNormal THEN {"normal"} ELSE {})
        \cup (IF ui.genSpec THEN {"spec"} ELSE {})
        \cup (IF ui.genDisplace THEN {"displace"} ELSE {})

\* the input at the size of the normal map has at least one pixel
NormalSizeNonEmpty ==
    \/ ui.normalmapSize = 100
    \/ /\ input.w * ui.normalmapSize >= 100
       /\ input.h * ui.normalmapSize >= 100

\* C5 as stated: for a successfully loaded item of a processQueue run the
\* files written are exactly those of the maps whose generate box is checked.
C5_FlaggedWritten ==
    (written.by = "queue" /\ Loaded) => WrittenKinds = CheckedKinds

\* C5 amended: for a successfully loaded item of a processQueue run the _spec
\* and _displace files are written exactly when their box is checked, the
\* _normal file exactly when its box is checked and the input at the size of
\* the normal map is not empty; nothing else is written.
C5_FlaggedNonEmptyWritten ==
    (written.by = "queue" /\ Loaded)
        => WrittenKinds =
               IF NormalSizeNonEmpty THEN CheckedKinds
               ELSE CheckedKinds \ {"normal"}

\* C5's case: an item was loaded with the spec box unchecked, and the run
\* wrote its normal and displacement maps and nothing else
C5_Witness ==
    /\ written.by = "queue"
    /\ Loaded
    /\ ui.genNormal /\ ~ui.genSpec /\ ui.genDisplace
    /\ WrittenKinds = {"normal", "displace"}

\* C2: every file a processQueue run saves under an item's name holds a map
\* computed from that item's image.
C2_JobsIndependent ==
    written.by = "queue"
        => \A f \in written.files : FileName(f.img.src) = written.name

\* C3: once a stop request is handled while a run is active, that run
\* processes no further item.
C3_StopAborts ==
    [][\A k \in 1..Len(runs) :
           (runs[k].stopped /\ k <= Len(runs'))
               => runs'[k].done = runs[k].done]_vars

\* C4: a run that is not stopped has, when it ends, processed every item that
\* was in the queue when it started, once each and in queue order.
C4_OrderedBatch ==
    [][(Len(runs') < Len(runs) /\ ~runs[Len(runs)].stopped)
           => /\ Len(runs[Len(runs)].done) >= Len(runs[Len(runs)].start)
              /\ SubSeq(runs[Len(runs)].done, 1,
                        Len(runs[Len(runs)].start))
                     = runs[Len(runs)].start]_vars

C11_PngWithoutSuffix ==
    (written.by = "dialog"
        /\ baseName(written.name) # <<>>
        /\ suffix(written.name) = <<>>)
        => \A f \in written.files : suffix(f.name) = PNG

\* C12: in every call of the SSAO generator the height map has the width and
\* height of the normal map, and both were computed from the input loaded at
\* the time of the call.
C12_SsaoArguments ==
    \A k \in 1..Len(log.ssao) :
        /\ log.ssao[k].height.w = log.ssao[k].normal.w
        /\ log.ssao[k].height.h = log.ssao[k].normal.h
        /\ ~isNull(log.ssao[k].normal)
               => /\ log.ssao[k].height.src = log.ssao[k].normal.src
                  /\ log.ssao[k].normal.src = log.ssao[k].input.src

\* C13: when the input is empty, a calculation of a map computes nothing and
\* that map is empty afterwards.
C13_EmptyInputEmptyMaps ==
    [][isNull(input)
           => /\ (\E elapsed \in ElapsedTimes : CalcNormalClicked(elapsed))
                     => isNull(normalmap')
              /\ (\E elapsed \in ElapsedTimes : CalcSpecClicked(elapsed))
                     => isNull(specmap')
              /\ (\E elapsed \in ElapsedTimes : CalcDisplaceClicked(elapsed))
                     => isNull(displacementmap')
              /\ (\E elapsed \in ElapsedTimes : CalcSsaoClicked(elapsed))
                     => isNull(ssaomap') /\ log'.ssao = <<>>]_vars

\* the suffixes the supported string lists
SupportedSuffixes ==
    {<<"p", "n", "g">>, <<"j", "p", "g">>, <<"j", "p", "e", "g">>,
     <<"t", "i", "f", "f">>, <<"p", "p", "m">>, <<"b", "m", "p">>,
     <<"x", "p", "m">>, <<"t", "g", "a">>}

\* the lower-cased suffix of the url's file name is one of the list
InSupportedList(url) == toLower(suffix(FileName(url))) \in SupportedSuffixes

\* C14: loadMultipleDropped appends to the queue exactly the urls whose
\* lower-cased suffix is one of the list, in their order, and shows the
\* unsupported-format notice when there is any other url.
C14_QueuedIffSupported ==
    [][\A urls \in DropLists :
           ((\E elapsed \in TimerReads : LoadMultipleDropped(urls, elapsed))
               /\ crashed' = "no")
               => /\ [k \in 1..Len(ui'.queue) |-> ui'.queue[k].url]
                        = [k \in 1..Len(ui.queue) |-> ui.queue[k].url]
                              \o SelectSeq(urls, InSupportedList)
                  /\ (\E k \in 1..Len(urls) : ~InSupportedList(urls[k]))
                         => "Not All Images Loaded Into Queue"
                                \in log'.notices]_vars

\* C15: a calculation of the displacement map yields the specular generator's
\* map of the input with alpha weight 0, whatever the alpha multiplier of the
\* specular map is, blurred exactly when the blur box is checked; a
\* calculation of the specular map uses the multiplier and no blur.
C15_DisplaceAlphaZero ==
    [][(~isNull(input) /\ crashed' = "no")
           => /\ (\E elapsed \in ElapsedTimes : CalcDisplaceClicked(elapsed))
                     => /\ displacementmap'.src = input.src
                        /\ displacementmap'.par = <<0, ui.displaceBlur>>
                        /\ specmap' = specmap
              /\ (\E elapsed \in ElapsedTimes : CalcSpecClicked(elapsed))
                     => /\ specmap'.src = input.src
                        /\ specmap'.par = <<ui.specAlphaMul>>
                        /\ displacementmap' = displacementmap]_vars

\* C15's case: with an alpha multiplier other than 0 and the blur box checked,
\* both maps have been calculated
C15_Witness ==
    /\ ui.specAlphaMul # 0
    /\ ~isNull(specmap) /\ specmap.par = <<ui.specAlphaMul>>
    /\ ~isNull(displacementmap) /\ displacementmap.par = <<0, TRUE>>

\* C16: when load has returned true, normalmap, specmap, displacementmap and
\* ssaomap are empty.
C16_LoadClearsMaps ==
    Loaded
        => /\ isNull(normalmap)
           /\ isNull(specmap)
           /\ isNull(displacementmap)
           /\ isNull(ssaomap)

\* C16's case: c.TGA was loaded after the normal map of a.png had been
\* calculated (its intensity map is still held)
C16_Witness ==
    /\ Loaded
    /\ last.url = 3
    /\ normalmapRawIntensity.src = 1
    /\ isNull(normalmap) /\ isNull(ssaomap)

\* C17: a load that cannot decode the image returns false, shows a message,
\* and leaves input, loadedImagePath, exportPath and the generated maps as
\* they were.
C17_FailedLoadKeepsState ==
    [][(last'.url # 0 /\ ~last'.ok /\ crashed' = "no")
           => /\ "Error while loading image" \in log'.notices
              /\ input' = input
              /\ loadedImagePath' = loadedImagePath
              /\ exportPath' = exportPath
              /\ normalmap' = normalmap
              /\ specmap' = specmap
              /\ displacementmap' = displacementmap
              /\ ssaomap' = ssaomap]_vars

\* C18: load called with an invalid url returns to its caller: no slot is
\* ever left by load's throw.
C18_InvalidUrlReturns == crashed # "throw"

\* C19: a non-empty ssaomap was computed from the normal map now held in
\* normalmap.
C19_SsaoOfCurrentNormal ==
    ~isNull(ssaomap)
        => /\ ssaomap.src = normalmap.src
           /\ ssaomap.par[1] = normalmap.par

\* C20: every call of calcSsao that finds a non-empty normal map hands that
\* very map to the SSAO generator (no recalculation), also when the call is
\* made from inside load. In an event that loads nothing, so that the event's
\* first state is the state calcSsao starts in, a call with a loaded input
\* calculates the normal map from the input with the current settings when
\* there is none, leaves a non-empty normal map as it is, and ends with
\* normalmap being the map that was handed to the SSAO generator.
C20_SsaoNormalFirst ==
    [][/\ (Len(log'.ssao) > 0 /\ ~isNull(normalmap))
              => /\ Len(log'.ssao) = 1
                 /\ log'.ssao[1].normal = normalmap
       /\ (/\ Len(log'.ssao) > 0
           /\ last' = NoLoad
           /\ ~isNull(input))
              => /\ Len(log'.ssao) = 1
                 /\ input' = input
                 /\ log'.ssao[1].normal = normalmap'
                 /\ ~isNull(normalmap) => normalmap' = normalmap
                 /\ isNull(normalmap)
                        => normalmap' = calcNormal(Win').normalmap
                 /\ (isNull(normalmap) /\ crashed' = "no")
                        => /\ ~isNull(normalmap')
                           /\ normalmap'.src = input.src
                 /\ ~isNull(ssaomap')
                        => /\ ssaomap'.src = normalmap'.src
                           /\ ssaomap'.par[1] = normalmap'.par]_vars

\* calcSsao found a normal map made with other settings than the current ones
\* and used it as it was
C20_Witness ==
    /\ Len(log.ssao) = 1
    /\ last = NoLoad
    /\ crashed = "no"
    /\ ~isNull(ssaomap)
    /\ log.ssao[1].normal = normalmap
    /\ normalmap # calcNormal(Win).normalmap

\* The preview: images are loaded, the tabs are clicked, the normal-map size
\* is changed on any tab and the normal map is calculated by its button.
NextPreview ==
    \/ \E url \in Urls, elapsed \in TimerReads :
           /\ LoadSingleDropped(url, elapsed)
           /\ Len(ui'.queue) <= MaxSessionQueue
    \/ \E tab \in 0..4, elapsed \in ElapsedTimes : TabBarClicked(tab, elapsed)
    \/ \E percent \in SizePercents, elapsed \in TimerReads :
           NormalmapSizeChanged(percent, elapsed)
    \/ \E elapsed \in ElapsedTimes : CalcNormalClicked(elapsed)

SpecPreview == Init /\ [][NextPreview]_vars

\* the map shown on a tab, and its name in log.gen
TabMap(tab) ==
    CASE tab = 1 -> normalmap
      [] tab = 2 -> specmap
      [] tab = 3 -> displacementmap
      [] tab = 4 -> ssaomap
      [] OTHER -> NullImage

TabMapName(tab) ==
    CASE tab = 1 -> "normal"
      [] tab = 2 -> "spec"
      [] tab = 3 -> "displace"
      [] OTHER -> "ssao"

C22_PreviewTerminates == crashed # "recursion"

\* C23: when the preview(tab) call of a tab click has returned, the scene
\* holds exactly one pixmap item, also when the call generated the map.
C23_OnePixmapItem ==
    [][(/\ crashed' = "no"
        /\ \E tab \in 0..4, elapsed \in ElapsedTimes :
               TabBarClicked(tab, elapsed))
           => ui'.scene = 1]_vars

\* The auto-update: images are loaded, the tabs are clicked or selected from
\* the keyboard, the normal-map size is changed (valueChanged calls autoUpdate
\* on every tab), the auto-update box and its threshold are changed, and the
\* normal map is calculated by its button.
NextAuto ==
    \/ \E url \in Urls, elapsed \in TimerReads :
           /\ LoadSingleDropped(url, elapsed)
           /\ Len(ui'.queue) <= MaxSessionQueue
    \/ \E tab \in {0, 1, 4}, elapsed \in ElapsedTimes :
           TabBarClicked(tab, elapsed)
    \/ \E tab \in {0, 1, 4} : TabSelectedByKey(tab)
    \/ \E percent \in SizePercents, elapsed \in TimerReads :
           NormalmapSizeChanged(percent, elapsed)
    \/ AutoUpdateClicked
    \/ \E value \in Thresholds : AutoUpdateThresholdChanged(value)
    \/ \E elapsed \in ElapsedTimes : CalcNormalClicked(elapsed)

SpecAuto == Init /\ [][NextAuto]_vars

\* the last calculation time of the map shown on a tab
TabTime(tab) ==
    CASE tab = 1 -> lastCalctime_normal
      [] tab = 2 -> lastCalctime_specular
      [] tab = 3 -> lastCalctime_displace
      [] OTHER -> lastCalctime_ssao

\* autoUpdate generates only with the box checked and enabled, on a tab 1..4
\* whose map's last calculation time is strictly below the threshold, and
\* then it generates that tab's map. (The tab, the box and the
\* threshold are those of the event's first state: no event that calls
\* autoUpdate changes them before the call. load enables the box before it
\* calls autoUpdate.)
AutoUpdateGuarded ==
    log'.auto # {}
        => /\ ui.autoUpdate
           /\ ui'.autoUpdateEnabled
           /\ ui.tab \in 1..4
           /\ TabTime(ui.tab) < ui.autoUpdateThreshold_ms
           /\ TabMapName(ui.tab) \in log'.auto

\* an event that loads nothing and generates what autoUpdate generates leaves
\* the maps autoUpdate did not generate as they are
AutoUpdateFrame ==
    (last' = NoLoad /\ log'.gen = log'.auto /\ written' = NothingWritten)
        => /\ "normal" \notin log'.auto => normalmap' = normalmap
           /\ "spec" \notin log'.auto => specmap' = specmap
           /\ "displace" \notin log'.auto
                  => displacementmap' = displacementmap
           /\ "ssao" \notin log'.auto => ssaomap' = ssaomap

\* C24 as stated: autoUpdate generates under its three conditions only, and
\* only the map of the current tab, every other map staying as it is; a map
\* whose last calculation time is not below the threshold is not generated by
\* autoUpdate.
C24_CurrentTabOnly ==
    [][/\ AutoUpdateGuarded
       /\ AutoUpdateFrame
       /\ log'.auto \subseteq {TabMapName(ui.tab)}
       /\ \A tab \in 1..4 :
              TabTime(tab) >= ui.autoUpdateThreshold_ms
                  => TabMapName(tab) \notin log'.auto]_vars

\* C24: autoUpdate generates under its three conditions only: the map of the
\* current tab and, on the SSAO tab, the normal map when that is empty
\* (whatever its last calculation time); every other map stays as it is.
C24_CurrentTabAndEmptyNormal ==
    [][/\ AutoUpdateGuarded
       /\ AutoUpdateFrame
       /\ log'.auto \subseteq
              {TabMapName(ui.tab)}
                  \cup (IF ui.tab = 4 /\ isNull(normalmap)
                        THEN {"normal"} ELSE {})
       /\ \A tab \in 1..4 :
              (TabTime(tab) >= ui.autoUpdateThreshold_ms
                   /\ TabMapName(tab) \in log'.auto)
                  => tab = 1 /\ ui.tab = 4 /\ isNull(normalmap)]_vars

\* auto-update has just recalculated the normal map on its tab, after the
\* threshold was raised above a last calculation time it had excluded
C24_Witness ==
    /\ crashed = "no"
    /\ log.auto = {"normal"}
    /\ last = NoLoad
    /\ ui.tab = 1
    /\ ui.autoUpdateThreshold_ms > AutoUpdateThreshold_ms
    /\ lastCalctime_normal = AutoUpdateThreshold_ms
    /\ ~isNull(ssaomap)

\* C25: whenever no processQueue run is active, stopQueue is false and the
\* stop button is disabled; and a stop request made for one run does not keep
\* a run started later from processing its items: a click on process queue
\* with a queue that is not empty and a valid export path loads the first
\* item of the queue.
C25_StopResetBetweenRuns ==
    [][/\ (runs' = <<>> /\ crashed' = "no")
              => ~stopQueue' /\ ~ui'.stopEnabled
       /\ (/\ Len(ui.queue) > 0
           /\ isValid(exportPath)
           /\ \E elapsed \in ElapsedTimes : ProcessQueue(elapsed))
              => /\ last'.url = ui.queue[1].url
                 /\ written'.by = "queue"]_vars

\* C26: at most one processQueue run is active at any time, and the stop
\* button is enabled as long as a run is active.
C26_OneRun ==
    /\ Len(runs) <= 1
    /\ (runs # <<>> /\ crashed = "no") => ui.stopEnabled

\* C27: the large-detail scale load sets does not grow with the image size:
\* the scale of a loaded image is not above the scale load sets for any
\* smaller longest side, and it is at least 20 from 300 px on.
C27_ScaleMonotone ==
    Loaded
        => /\ \A a \in 1..ImageSize :
                  ui.largeDetailScale <= largeDetailScaleFor(a)
           /\ ImageSize >= 300 => ui.largeDetailScale >= 20

====
